---- MODULE Spec2Model ----
(***************************************************************************)
(* Model of app.py: the Flask endpoint POST /analizar.  A request body is  *)
(* parsed, its `image` string is split at commas, the second part is       *)
(* base64-decoded, opened as an image and sent to the external generative  *)
(* model; every exception is turned into a 500 JSON response.              *)
(*                                                                         *)
(* Characters are code points, strings are sequences of code points and    *)
(* bytes are sequences of 0..255.                                          *)
(***************************************************************************)
EXTENDS Integers, Sequences, FiniteSets, TLC

\* ------------------------------------------------------------------ bounds
MaxLen == 6          \* longest `image` string posted
NumThreads == 2      \* worker threads serving requests at once
MaxReq == 3          \* requests received in one run of the threaded server

\* -------------------------------------------------------------- characters
Comma == 44          \* ',' the separator of line 87
Pad == 61            \* '=' the padding character of base64

\* the characters of the `image` strings posted: ',' and '=', the base64
\* digits 'Q' (16) and 'g' (32), '!' (ASCII, outside the base64 alphabet)
\* and 'ñ' (not ASCII)
Alphabet == {Comma, Pad, 81, 103, 33, 241}

Strings == UNION {[1..n -> Alphabet] : n \in 0..MaxLen}

\* ------------------------------------------------------------- exceptions
Exc(type, msg) == [type |-> type, msg |-> msg]
NoExc == Exc("", "")

\* str(e)
str(e) == e.msg

Ok(v) == [ok |-> TRUE, val |-> v, exc |-> NoExc]
Raise(e) == [ok |-> FALSE, val |-> <<>>, exc |-> e]

\* ------------------------------------------------------------ str.split
RECURSIVE SplitFrom(_, _, _)
\* the parts of s[i..], cur being the part collected so far
SplitFrom(s, i, cur) ==
    IF i > Len(s) THEN <<cur>>
    ELSE IF s[i] = Comma THEN <<cur>> \o SplitFrom(s, i + 1, <<>>)
    ELSE SplitFrom(s, i + 1, Append(cur, s[i]))

\* s.split(',', 1): split at the first comma only
split_once(s) ==
    LET P == {i \in 1..Len(s) : s[i] = Comma} IN
    IF P = {} THEN <<s>>
    ELSE LET k == CHOOSE i \in P : \A j \in P : i <= j
         IN <<SubSeq(s, 1, k - 1), SubSeq(s, k + 1, Len(s))>>

\* s.split(',')
split(s) == SplitFrom(s, 1, <<>>)

\* parts[-1]: the last part, which a string without a comma has too
LastPart(parts) == Ok(parts[Len(parts)])

\* prefix, payload = parts: refuses anything but two parts
OnlyTwoParts(parts) ==
    IF Len(parts) = 2 THEN Ok(parts[2])
    ELSE Raise(Exc("ValueError", "too many values to unpack (expected 2)"))

\* parts[1] of a Python list (0-based), IndexError when it has one element
SecondPart(parts) ==
    IF Len(parts) >= 2 THEN Ok(parts[2])
    ELSE Raise(Exc("IndexError", "list index out of range"))

\* --------------------------------------------------------- base64.b64decode
\* table_a2b_base64: the 6-bit value of a character, 64 for any other one
B64Value(c) ==
    IF c >= 65 /\ c <= 90 THEN c - 65
    ELSE IF c >= 97 /\ c <= 122 THEN c - 71
    ELSE IF c >= 48 /\ c <= 57 THEN c + 4
    ELSE IF c = 43 THEN 62
    ELSE IF c = 47 THEN 63
    ELSE 64

IsAscii(s) == \A i \in 1..Len(s) : s[i] < 128

RECURSIVE a2b_base64(_, _, _, _, _, _)
\* binascii.a2b_base64 without strict_mode, from position i on: quad_pos is
\* the position in the current group of four digits, leftchar the bits not
\* yet written, pads the padding characters just seen, out the bytes so far
a2b_base64(s, i, quad_pos, leftchar, pads, out) ==
    IF i > Len(s) THEN
        IF quad_pos = 0 THEN Ok(out)
        ELSE IF quad_pos = 1 THEN
            Raise(Exc("binascii.Error",
                "Invalid base64-encoded string: number of data characters ("
                \o ToString((Len(out) \div 3) * 4 + 1)
                \o ") cannot be 1 more than a multiple of 4"))
        ELSE Raise(Exc("binascii.Error", "Incorrect padding"))
    ELSE IF s[i] = Pad THEN
        IF quad_pos >= 2 /\ quad_pos + pads + 1 >= 4 THEN Ok(out)
        ELSE a2b_base64(s, i + 1, quad_pos, leftchar,
                        IF quad_pos >= 2 THEN pads + 1 ELSE pads, out)
    ELSE IF B64Value(s[i]) >= 64 THEN
        a2b_base64(s, i + 1, quad_pos, leftchar, pads, out)
    ELSE
        LET v == B64Value(s[i]) IN
        CASE quad_pos = 0 -> a2b_base64(s, i + 1, 1, v, 0, out)
          [] quad_pos = 1 ->
                a2b_base64(s, i + 1, 2, v % 16, 0,
                           Append(out, (leftchar * 4 + v \div 16) % 256))
          [] quad_pos = 2 ->
                a2b_base64(s, i + 1, 3, v % 4, 0,
                           Append(out, (leftchar * 16 + v \div 4) % 256))
          [] quad_pos = 3 ->
                a2b_base64(s, i + 1, 0, 0, 0,
                           Append(out, (leftchar * 64 + v) % 256))

\* decoding the characters without encoding them as ASCII first
b64decode_unchecked(s) == a2b_base64(s, 1, 0, 0, 0, <<>>)

\* base64.b64decode(s) for a str s: s is encoded as ASCII, then decoded
\* with validate=False
b64decode(s) ==
    IF ~IsAscii(s) THEN
        Raise(Exc("ValueError",
                  "string argument should contain only ASCII characters"))
    ELSE a2b_base64(s, 1, 0, 0, 0, <<>>)

\* ------------------------------------------------------------- Image.open
ImageSignature == 65     \* first byte of the one raster format recognised
MinImageLen == 2         \* a signature alone is a truncated file

\* whether PIL identifies the bytes as an image of a supported format
IsImage(bytes) == Len(bytes) >= MinImageLen /\ bytes[1] = ImageSignature

\* the addresses repr() may print for the BytesIO object of a request
Addresses == {"0x7f3a10", "0x7f3a58"}

\* an opening that refuses empty input only
Image_open_any(bytes, addr) ==
    IF Len(bytes) > 0 THEN Ok(bytes)
    ELSE Raise(Exc("UnidentifiedImageError",
                   "cannot identify image file <_io.BytesIO object at "
                   \o addr \o ">"))

\* Image.open(io.BytesIO(imagen_bytes)), the BytesIO object living at addr
Image_open(bytes, addr) ==
    IF IsImage(bytes) THEN Ok(bytes)
    ELSE Raise(Exc("UnidentifiedImageError",
                   "cannot identify image file <_io.BytesIO object at "
                   \o addr \o ">"))

\* ----------------------------------------------------------- request bodies
\* json: what request.json finds ("unsupported": no JSON content type,
\* "malformed": not parseable, else the type of the JSON value);
\* image: the type of data['image'] of an object ("absent": no such key);
\* chars: the characters of a string `image`
Body(json, image, chars) == [json |-> json, image |-> image, chars |-> chars]

ImageBody(s) == Body("object", "string", s)

OtherBodies ==
    {Body(j, "absent", <<>>) :
        j \in {"unsupported", "malformed", "null", "number", "array",
               "string", "object"}}
    \cup {Body("object", i, <<>>) : i \in {"null", "number"}}

Bodies == OtherBodies \cup {ImageBody(s) : s \in Strings}

\* request.json
request_json(body) ==
    CASE body.json = "unsupported" ->
            Raise(Exc("UnsupportedMediaType",
                      "415 Unsupported Media Type: Did not attempt to load JSON data because the request Content-Type was not 'application/json'."))
      [] body.json = "malformed" ->
            Raise(Exc("BadRequest",
                      "400 Bad Request: Failed to decode JSON object"))
      [] OTHER -> Ok(body)

\* data['image']
data_image(data) ==
    CASE data.json = "null" ->
            Raise(Exc("TypeError", "'NoneType' object is not subscriptable"))
      [] data.json = "number" ->
            Raise(Exc("TypeError", "'int' object is not subscriptable"))
      [] data.json = "array" ->
            Raise(Exc("TypeError",
                      "list indices must be integers or slices, not str"))
      [] data.json = "string" ->
            Raise(Exc("TypeError",
                      "string indices must be integers, not 'str'"))
      [] data.json = "object" /\ data.image = "absent" ->
            Raise(Exc("KeyError", "'image'"))
      [] OTHER -> Ok(data)

\* image_data.split(',')
image_data_split(image_data) ==
    CASE image_data.image = "null" ->
            Raise(Exc("AttributeError",
                      "'NoneType' object has no attribute 'split'"))
      [] image_data.image = "number" ->
            Raise(Exc("AttributeError",
                      "'int' object has no attribute 'split'"))
      [] OTHER -> Ok(split(image_data.chars))

\* lines 79-87 of analizar: the value of image_base64, or the exception
image_base64_of(body) ==
    LET data == request_json(body) IN
    IF ~data.ok THEN data
    ELSE LET image_data == data_image(data.val) IN
         IF ~image_data.ok THEN image_data
         ELSE LET parts == image_data_split(image_data.val) IN
              IF ~parts.ok THEN parts ELSE SecondPart(parts.val)

\* ------------------------------------------------------ the external model
ModelName == "gemini-2.5-flash"

Texts == {"Una persona sonriendo", ""}

ServiceErrors ==
    {Exc("ResourceExhausted", "429 Quota exceeded"),
     Exc("ServiceUnavailable", "503 failed to connect to all addresses")}

GenNone == [kind |-> "none", text |-> "", exc |-> NoExc]
GenText(t) == [kind |-> "text", text |-> t, exc |-> NoExc]
GenBlocked == [kind |-> "blocked", text |-> "", exc |-> NoExc]
GenRaise(e) == [kind |-> "raise", text |-> "", exc |-> e]

StubText == GenText("Una persona sonriendo")
StubError == GenRaise(Exc("ServiceUnavailable",
                          "503 failed to connect to all addresses"))

\* what one call of model.generate_content can do: the live service answers
\* with a text, with a response holding no text, or fails; a stub always
\* does the same
generate_content(g) ==
    CASE g = "live" ->
            {GenText(t) : t \in Texts} \cup {GenBlocked}
            \cup {GenRaise(e) : e \in ServiceErrors}
      [] g = "stub_text" -> {StubText}
      [] g = "stub_error" -> {StubError}

\* response.text
response_text(gen) ==
    IF gen.kind = "text" THEN Ok(gen.text)
    ELSE Raise(Exc("ValueError",
                   "Invalid operation: response.text requires the response to contain a valid Part, but none were returned."))

\* -------------------------------------------------------------- responses
NoResponse == [code |-> 0, json |-> [status |-> "none"]]

\* the key the comment of line 98 names
JsonResultado(descripcion) ==
    [code |-> 200,
     json |-> [resultado |-> descripcion, status |-> "success"]]

\* jsonify({'descripcion': descripcion, 'status': 'success'})
JsonSuccess(descripcion) ==
    [code |-> 200,
     json |-> [descripcion |-> descripcion, status |-> "success"]]

\* the error answered as a client error
JsonErrorBadRequest(e) ==
    [code |-> 400, json |-> [error |-> str(e), status |-> "error"]]

\* jsonify({'error': str(e), 'status': 'error'}), 500
JsonError(e) ==
    [code |-> 500, json |-> [error |-> str(e), status |-> "error"]]

\* ------------------------------------------------------------------ state
VARIABLES
    model,      \* the module-level client object (line 28)
    serving,    \* whether the server process is alive
    gemini,     \* how the external service behaves: live, or one of the stubs
    frames,     \* per worker thread, the request it handles and its locals
    received,   \* requests received so far
    failed,     \* whether some request has been answered with an error
    after,      \* per thread, the value of failed when its request arrived
    memo        \* one answered request, remembered with its response

hist == <<received, failed, after, memo>>
vars == <<model, serving, gemini, frames, received, failed, after, memo>>

Threads == 1..NumThreads

\* the locals of analizar and analizar_imagen, the outcome of the model call
\* (gen), the calls made to the model (calls), the statements finished so
\* far (steps) and the response returned
IdleFrame ==
    [pc |-> "idle", body |-> Body("none", "absent", <<>>),
     image_base64 |-> <<>>, image_bytes |-> <<>>, calls |-> 0,
     gen |-> GenNone, descripcion |-> "", exc |-> NoExc,
     logged |-> "", steps |-> <<>>, response |-> NoResponse]

NoMemo == [set |-> FALSE, body |-> Body("none", "absent", <<>>), code |-> 0,
           fields |-> {}, status |-> ""]

\* status code and envelope of a response
Memo(body, response) ==
    [set |-> TRUE, body |-> body, code |-> response.code,
     fields |-> DOMAIN response.json, status |-> response.json.status]

\* the state once the module is loaded and the server listens
InitWith(modes) ==
    /\ model = ModelName
    /\ serving = TRUE
    /\ gemini \in modes
    /\ frames = [t \in Threads |-> IdleFrame]
    /\ received = 0
    /\ failed = FALSE
    /\ after = [t \in Threads |-> FALSE]
    /\ memo = NoMemo

Init == InitWith({"live"})

\* the frame of thread t after the exception e leaves the try block
Raised(t, e) == [frames[t] EXCEPT !.pc = "except", !.exc = e]

\* the frame of thread t once statement `step` is done, control at pc
Done(t, step, pc) ==
    [frames[t] EXCEPT !.pc = pc, !.steps = Append(@, step)]

\* a POST /analizar request with the given body reaches thread t
Receive(t, body) ==
    /\ serving
    /\ frames[t].pc = "idle"
    /\ frames' = [frames EXCEPT ![t] = [IdleFrame EXCEPT !.pc = "request",
                                                         !.body = body]]
    /\ UNCHANGED <<model, serving, gemini>>

\* lines 79-87: request.json, data['image'], image_data.split(',')[1]
ParseRequest(t) ==
    /\ frames[t].pc = "request"
    /\ LET r == image_base64_of(frames[t].body) IN
       frames' = [frames EXCEPT ![t] =
            IF r.ok
            THEN [Done(t, "split", "b64decode") EXCEPT !.image_base64 = r.val]
            ELSE Raised(t, r.exc)]
    /\ UNCHANGED <<model, serving, gemini, hist>>

\* line 91: image_bytes = base64.b64decode(image_base64)
B64Decode(t) ==
    /\ frames[t].pc = "b64decode"
    /\ LET r == b64decode(frames[t].image_base64) IN
       frames' = [frames EXCEPT ![t] =
            IF r.ok
            THEN [Done(t, "b64decode", "open") EXCEPT !.image_bytes = r.val]
            ELSE Raised(t, r.exc)]
    /\ UNCHANGED <<model, serving, gemini, hist>>

\* lines 94 and 35: analizar_imagen is entered and opens the image
ImageOpen(t) ==
    /\ frames[t].pc = "open"
    /\ \E addr \in Addresses :
        LET r == Image_open(frames[t].image_bytes, addr) IN
        frames' = [frames EXCEPT ![t] =
            IF r.ok THEN Done(t, "open", "generate") ELSE Raised(t, r.exc)]
    /\ UNCHANGED <<model, serving, gemini, hist>>

\* the call made a second time when the first one raises
GenerateContentRetrying(t) ==
    /\ frames[t].pc = "generate"
    /\ \E first \in generate_content(gemini) :
        \E gen \in IF first.kind = "raise" THEN generate_content(gemini)
                   ELSE {first} :
            frames' = [frames EXCEPT ![t] =
                LET n == IF first.kind = "raise" THEN 2 ELSE 1 IN
                IF gen.kind = "raise"
                THEN [Raised(t, gen.exc) EXCEPT !.calls = @ + n, !.gen = gen]
                ELSE [Done(t, "generate", "text") EXCEPT !.calls = @ + n,
                                                        !.gen = gen]]
    /\ UNCHANGED <<model, serving, gemini, hist>>

\* lines 39-42: the one call model.generate_content([prompt, img])
GenerateContent(t) ==
    /\ frames[t].pc = "generate"
    /\ IF model # ModelName
       THEN frames' = [frames EXCEPT ![t] =
                Raised(t, Exc("AttributeError",
                    "'NoneType' object has no attribute 'generate_content'"))]
       ELSE \E gen \in generate_content(gemini) :
            frames' = [frames EXCEPT ![t] =
                IF gen.kind = "raise"
                THEN [Raised(t, gen.exc) EXCEPT !.calls = @ + 1, !.gen = gen]
                ELSE [Done(t, "generate", "text") EXCEPT !.calls = @ + 1,
                                                        !.gen = gen]]
    /\ UNCHANGED <<model, serving, gemini, hist>>

\* lines 45 and 94: return response.text; descripcion = analizar_imagen(...)
ResponseText(t) ==
    /\ frames[t].pc = "text"
    /\ LET r == response_text(frames[t].gen) IN
       frames' = [frames EXCEPT ![t] =
            IF r.ok
            THEN [Done(t, "text", "return") EXCEPT !.descripcion = r.val]
            ELSE Raised(t, r.exc)]
    /\ UNCHANGED <<model, serving, gemini, hist>>

\* lines 100-103: return jsonify({...})
ReturnSuccess(t) ==
    /\ frames[t].pc = "return"
    /\ frames' = [frames EXCEPT ![t] =
            [Done(t, "return", "done") EXCEPT
                !.response = JsonSuccess(frames[t].descripcion)]]
    /\ UNCHANGED <<model, serving, gemini, hist>>

\* an except block that also drops the module-level client
ExceptDroppingModel(t) ==
    /\ frames[t].pc = "except"
    /\ frames' = [frames EXCEPT ![t] =
            [frames[t] EXCEPT !.pc = "done",
                              !.logged = "Error: " \o str(frames[t].exc),
                              !.response = JsonError(frames[t].exc)]]
    /\ model' = "None"
    /\ UNCHANGED <<serving, gemini, hist>>

\* an except block that also ends the process once the response is built
ExceptExiting(t) ==
    /\ frames[t].pc = "except"
    /\ frames' = [frames EXCEPT ![t] =
            [frames[t] EXCEPT !.pc = "done",
                              !.logged = "Error: " \o str(frames[t].exc),
                              !.response = JsonError(frames[t].exc)]]
    /\ serving' = FALSE
    /\ UNCHANGED <<model, gemini, hist>>

\* lines 105-112: except Exception as e: print, return jsonify({...}), 500
Except(t) ==
    /\ frames[t].pc = "except"
    /\ frames' = [frames EXCEPT ![t] =
            [frames[t] EXCEPT !.pc = "done",
                              !.logged = "Error: " \o str(frames[t].exc),
                              !.response = JsonError(frames[t].exc)]]
    /\ UNCHANGED <<model, serving, gemini, hist>>

\* the framework sends the response; the thread is free again
Reply(t) ==
    /\ frames[t].pc = "done"
    /\ frames' = [frames EXCEPT ![t] = IdleFrame]
    /\ UNCHANGED <<model, serving, gemini>>

\* one statement of the handler on thread t
Step(t) ==
    \/ ParseRequest(t)
    \/ B64Decode(t)
    \/ ImageOpen(t)
    \/ GenerateContent(t)
    \/ ResponseText(t)
    \/ ReturnSuccess(t)
    \/ Except(t)

\* ------------------------------------------------- the observer's records
\* an arriving request is counted and told whether a failure came before it
Arrive(t) ==
    /\ received < MaxReq
    /\ received' = received + 1
    /\ after' = [after EXCEPT ![t] = failed]
    /\ UNCHANGED <<failed, memo>>

\* an answered request is recorded as a failure when it is one
RecordFailure(t) ==
    /\ failed' = (failed \/ frames[t].response.code # 200)
    /\ UNCHANGED <<received, after, memo>>

\* the first answered request may be remembered with its response
Remember(t) ==
    /\ memo' \in {memo} \cup
            (IF memo.set THEN {}
             ELSE {Memo(frames[t].body, frames[t].response)})
    /\ UNCHANGED <<received, failed, after>>

\* ------------------------------------------------------- specifications
\* the first worker serving requests one after the other, any body up to
\* MaxLen
Worker == CHOOSE t \in Threads : \A u \in Threads : t <= u

Next ==
    \/ /\ frames[Worker].pc = "idle"
       /\ \E body \in Bodies : Receive(Worker, body)
       /\ UNCHANGED hist
    \/ Step(Worker)
    \/ Reply(Worker) /\ UNCHANGED hist

Spec == Init /\ [][Next]_vars

\* the requests the threaded server is sent: a valid one, one without a
\* comma, one with a truncated payload, one that is no image, one with two
\* commas, one without the `image` field
Samples ==
    {ImageBody(<<44, 81, 81, 81, 61>>),             \* ",QQQ="
     ImageBody(<<81, 81, 81, 61>>),                 \* "QQQ="
     ImageBody(<<44, 81, 81>>),                     \* ",QQ"
     ImageBody(<<44, 81, 81, 61, 61>>),             \* ",QQ=="
     ImageBody(<<44, 81, 81, 81, 61, 44, 33>>),     \* ",QQQ=,!"
     Body("object", "absent", <<>>)}                \* {}

\* NumThreads workers serving up to MaxReq requests of the live service,
\* interleaved
NextServer ==
    \E t \in Threads :
        \/ /\ frames[t].pc = "idle"
           /\ \E body \in Samples : Receive(t, body)
           /\ Arrive(t)
        \/ Step(t)
        \/ Reply(t) /\ RecordFailure(t)

SpecServer == InitWith({"live"}) /\ [][NextServer]_vars

\* the same server in front of a deterministic stub of the service
NextStub ==
    \E t \in Threads :
        \/ /\ frames[t].pc = "idle"
           /\ \E body \in Samples : Receive(t, body)
           /\ Arrive(t)
        \/ Step(t)
        \/ Reply(t) /\ Remember(t)

SpecStub == InitWith({"stub_text", "stub_error"}) /\ [][NextStub]_vars
\* ================================================================ claims
\* vocabulary of the claims
Answered(t) == frames[t].pc = "done"

HasImageString(body) == body.json = "object" /\ body.image = "string"

Commas(s) == Cardinality({i \in 1..Len(s) : s[i] = Comma})

\* position of the k-th comma of s, Len(s) + 1 when it has fewer
CommaAt(s, k) ==
    LET P == {i \in 1..Len(s) :
                s[i] = Comma
                /\ Cardinality({j \in 1..i : s[j] = Comma}) = k}
    IN IF P = {} THEN Len(s) + 1 ELSE CHOOSE i \in P : TRUE

AfterFirstComma(s) == SubSeq(s, CommaAt(s, 1) + 1, Len(s))

\* from the first comma to the second one, or to the end
BetweenCommas(s) == SubSeq(s, CommaAt(s, 1) + 1, CommaAt(s, 2) - 1)

IsDigit(c) == B64Value(c) < 64

\* RFC 4648: groups of four digits, the last one padded with one or two '='
WellFormedBase64(p) ==
    /\ Len(p) % 4 = 0
    /\ \A i \in 1..Len(p) :
        \/ IsDigit(p[i])
        \/ /\ p[i] = Pad
           /\ i >= Len(p) - 1
           /\ i = Len(p) - 1 => p[Len(p)] = Pad

\* the bytes a well-formed payload stands for
RECURSIVE Rfc4648Bytes(_)
Rfc4648Bytes(p) ==
    IF Len(p) < 4 THEN <<>>
    ELSE LET v(i) == IF p[i] = Pad THEN 0 ELSE B64Value(p[i])
             b1 == v(1) * 4 + v(2) \div 16
             b2 == (v(2) % 16) * 16 + v(3) \div 4
             b3 == (v(3) % 4) * 64 + v(4)
             group == IF p[3] = Pad THEN <<b1>>
                      ELSE IF p[4] = Pad THEN <<b1, b2>>
                      ELSE <<b1, b2, b3>>
         IN group \o Rfc4648Bytes(SubSeq(p, 5, Len(p)))

\* a data URL: metadata, one comma, the well-formed base64 of an image
ValidRequest(body) ==
    /\ HasImageString(body)
    /\ Commas(body.chars) = 1
    /\ WellFormedBase64(AfterFirstComma(body.chars))
    /\ IsImage(Rfc4648Bytes(AfterFirstComma(body.chars)))

SuccessOf(text) ==
    [code |-> 200, json |-> [descripcion |-> text, status |-> "success"]]

ErrorOf(msg) ==
    [code |-> 500, json |-> [error |-> msg, status |-> "error"]]

IsError500(response) ==
    /\ response.code = 500
    /\ DOMAIN response.json = {"error", "status"}
    /\ response.json.status = "error"

Range(seq) == {seq[i] : i \in 1..Len(seq)}

AllSteps == <<"split", "b64decode", "open", "generate", "text", "return">>

C2_EveryExceptionIs500 ==
    \A t \in Threads :
        /\ frames[t].exc # NoExc => frames[t].pc \in {"except", "done"}
        /\ Answered(t) =>
            IF frames[t].exc # NoExc \/ frames[t].steps # AllSteps
            THEN /\ frames[t].exc # NoExc
                 /\ frames[t].response = ErrorOf(frames[t].exc.msg)
            ELSE frames[t].response = SuccessOf(frames[t].descripcion)

C2_Witness ==
    \E t \in Threads :
        /\ Answered(t)
        /\ frames[t].gen.kind = "blocked"
        /\ frames[t].exc.type = "ValueError"
        /\ frames[t].response.code = 500

\* C3: an `image` string without a comma is answered 500 with status
\* "error", and the model is never called for it
C3_NoCommaIs500 ==
    \A t \in Threads :
        (HasImageString(frames[t].body) /\ Commas(frames[t].body.chars) = 0) =>
            /\ frames[t].calls = 0
            /\ Answered(t) => IsError500(frames[t].response)

C3_Witness ==
    \E t \in Threads :
        /\ Answered(t)
        /\ HasImageString(frames[t].body)
        /\ Commas(frames[t].body.chars) = 0
        /\ Len(frames[t].body.chars) = 4
        /\ frames[t].exc.type = "IndexError"

\* C4 as claimed: an `image` string that does not hold exactly one comma is
\* answered 500 with status "error" and is not analysed
C4_ExactlyOneComma ==
    \A t \in Threads :
        (/\ Answered(t)
         /\ HasImageString(frames[t].body)
         /\ Commas(frames[t].body.chars) # 1) =>
            IsError500(frames[t].response)

\* C4 as amended: without a comma the request is answered 500 and not
\* analysed; with two or more commas it is analysed exactly when the part
\* between the first and the second comma decodes to a supported image
C4_SecondPartDecides ==
    \A t \in Threads :
        (Answered(t) /\ HasImageString(frames[t].body)) =>
            LET s == frames[t].body.chars
                r == b64decode(BetweenCommas(s))
            IN /\ Commas(s) = 0 =>
                    IsError500(frames[t].response) /\ frames[t].calls = 0
               /\ Commas(s) >= 2 =>
                    (frames[t].calls = 1 <=> (r.ok /\ IsImage(r.val)))

C4_Witness ==
    \E t \in Threads :
        /\ Answered(t)
        /\ HasImageString(frames[t].body)
        /\ Commas(frames[t].body.chars) >= 2
        /\ frames[t].calls = 1
        /\ frames[t].response.code = 200

\* number of base64 digits among the first i characters of p
DigitsUpTo(p, i) == Cardinality({j \in 1..i : IsDigit(p[j])})

\* a '=' that closes a group: after three digits of the group, or after two
\* digits and an earlier '=' of the same group
ClosingPad(p, i) ==
    /\ p[i] = Pad
    /\ LET d == DigitsUpTo(p, i) IN
        \/ d % 4 = 3
        \/ /\ d % 4 = 2
           /\ \E j \in 1..(i - 1) : p[j] = Pad /\ DigitsUpTo(p, j) = d

\* a payload the decoder refuses: a character that is not ASCII, or digits
\* that do not fill their last group without a padding that closes it
Undecodable(p) ==
    \/ \E i \in 1..Len(p) : p[i] >= 128
    \/ /\ DigitsUpTo(p, Len(p)) % 4 # 0
       /\ ~\E i \in 1..Len(p) : ClosingPad(p, i)

\* C5 as claimed: a payload that is not valid base64, by a character
\* outside the alphabet or by its length or padding, is answered 500
C5_InvalidBase64Is500 ==
    \A t \in Threads :
        (/\ Answered(t)
         /\ HasImageString(frames[t].body)
         /\ Commas(frames[t].body.chars) = 1
         /\ ~WellFormedBase64(AfterFirstComma(frames[t].body.chars))) =>
            IsError500(frames[t].response)

\* C5 as amended: a payload holding a character that is not ASCII, or whose
\* base64 digits (every other character skipped) leave a last group that
\* is neither full nor closed by padding, fails at the decoding, is
\* answered 500 and never reaches the model
C5_UndecodableIs500 ==
    \A t \in Threads :
        (/\ HasImageString(frames[t].body)
         /\ Commas(frames[t].body.chars) = 1
         /\ Undecodable(AfterFirstComma(frames[t].body.chars))) =>
            /\ frames[t].calls = 0
            /\ frames[t].pc \in {"request", "b64decode", "except", "done"}
            /\ Answered(t) =>
                /\ IsError500(frames[t].response)
                /\ frames[t].exc.type \in {"ValueError", "binascii.Error"}

C5_Witness ==
    \E t \in Threads :
        /\ Answered(t)
        /\ HasImageString(frames[t].body)
        /\ Commas(frames[t].body.chars) = 1
        /\ Undecodable(AfterFirstComma(frames[t].body.chars))
        /\ Len(AfterFirstComma(frames[t].body.chars)) >= 5
        /\ frames[t].exc.type = "binascii.Error"

\* C6: bytes that were decoded but are no supported image stop at the
\* opening of the image: the model is not called and the answer is 500
C6_NotAnImageIs500 ==
    \A t \in Threads :
        ("b64decode" \in Range(frames[t].steps)
            /\ ~IsImage(frames[t].image_bytes)) =>
            /\ frames[t].calls = 0
            /\ frames[t].pc \in {"open", "except", "done"}
            /\ Answered(t) =>
                /\ IsError500(frames[t].response)
                /\ frames[t].exc.type = "UnidentifiedImageError"

C6_Witness ==
    \E t \in Threads :
        /\ Answered(t)
        /\ "b64decode" \in Range(frames[t].steps)
        /\ Len(frames[t].image_bytes) > 0
        /\ ~IsImage(frames[t].image_bytes)
        /\ frames[t].response.code = 500

\* C7: in front of a deterministic stub, the status code and envelope of
\* the response are decided by the body alone: a request answered now gets
\* what the remembered request with the same body got, and two requests in
\* flight together with the same body get the same
C7_ResponseByBodyAlone ==
    /\ \A t \in Threads :
        (Answered(t) /\ memo.set /\ frames[t].body = memo.body) =>
            Memo(frames[t].body, frames[t].response) = memo
    /\ \A t, u \in Threads :
        (Answered(t) /\ Answered(u) /\ frames[t].body = frames[u].body) =>
            Memo(frames[t].body, frames[t].response)
                = Memo(frames[u].body, frames[u].response)

C7_Witness ==
    \E t, u \in Threads :
        /\ t # u
        /\ memo.set
        /\ Answered(t)
        /\ frames[t].body = memo.body
        /\ frames[u].pc \notin {"idle", "request"}
        /\ frames[u].body # memo.body
        /\ received >= 3

\* C8: the server keeps serving, and a valid request that arrives after
\* some request failed still reaches the model and, when the model returns
\* a text, is answered 200 with it
C8_FailureIsLocal ==
    /\ serving
    /\ \A t \in Threads :
        (after[t] /\ Answered(t) /\ ValidRequest(frames[t].body)) =>
            /\ frames[t].gen.kind # "none"
            /\ frames[t].gen.kind = "text" =>
                    frames[t].response = SuccessOf(frames[t].gen.text)

C8_Witness ==
    \E t \in Threads :
        /\ after[t]
        /\ Answered(t)
        /\ ValidRequest(frames[t].body)
        /\ frames[t].response.code = 200

\* C9: a request calls the model at most once, and only once its payload
\* was decoded and opened as an image; an error raised by the call is the
\* exception the endpoint catches, without a second call, and the 500
\* response carries its message
C9_OneCallNoRetry ==
    \A t \in Threads :
        /\ frames[t].calls <= 1
        /\ frames[t].calls = 1 =>
            /\ SubSeq(frames[t].steps, 1, 3) = <<"split", "b64decode", "open">>
            /\ IsImage(frames[t].image_bytes)
        /\ frames[t].gen.kind = "raise" =>
            /\ frames[t].calls = 1
            /\ frames[t].exc = frames[t].gen.exc
            /\ frames[t].pc \in {"except", "done"}
            /\ Answered(t) =>
                    frames[t].response = ErrorOf(frames[t].gen.exc.msg)

C9_Witness ==
    \E t \in Threads :
        /\ Answered(t)
        /\ frames[t].gen.kind = "raise"
        /\ frames[t].response.code = 500

\* C10 as claimed: what is base64-decoded is the `image` string after its
\* first comma, whatever commas follow
C10_AfterFirstComma ==
    \A t \in Threads :
        (HasImageString(frames[t].body)
            /\ "split" \in Range(frames[t].steps)) =>
            frames[t].image_base64 = AfterFirstComma(frames[t].body.chars)

\* C10 as amended: what is base64-decoded is the `image` string from after
\* its first comma up to its second comma, or to its end when it has one
\* comma only
C10_BetweenCommas ==
    \A t \in Threads :
        (HasImageString(frames[t].body)
            /\ "split" \in Range(frames[t].steps)) =>
            /\ Commas(frames[t].body.chars) >= 1
            /\ frames[t].image_base64 = BetweenCommas(frames[t].body.chars)
            /\ "b64decode" \in Range(frames[t].steps) =>
                    Ok(frames[t].image_bytes)
                        = b64decode(BetweenCommas(frames[t].body.chars))

C10_Witness ==
    \E t \in Threads :
        /\ HasImageString(frames[t].body)
        /\ "b64decode" \in Range(frames[t].steps)
        /\ Commas(frames[t].body.chars) >= 2
        /\ frames[t].image_base64 # <<>>
        /\ frames[t].image_base64 # AfterFirstComma(frames[t].body.chars)
====
